---- MODULE Spec2Model ----
(***************************************************************************)
(* A model of morning_snapshot.py: one run of the script, from module      *)
(* import to the last print of the __main__ block.                         *)
(*                                                                         *)
(* Prices are Python floats in the program.  The model keeps them as       *)
(* integers counted in tenths (4.6 is 46, 105 is 1050), so that the        *)
(* comparisons against the thresholds 4.6, 4.2, 105 and 95 are exact.      *)
(* An optional value (a float or None) is a sequence of length at most     *)
(* one: None is <<>> and the float v is <<v>>.                             *)
(***************************************************************************)
EXTENDS Integers, Sequences, FiniteSets, TLC

VARIABLES
    encodes,    \* can sys.stdout encode all well-formed text (UTF-8 can, ascii cannot)
    BOT_TOKEN,  \* os.getenv("TELEGRAM_BOT_TOKEN"), read at import
    CHAT_ID,    \* os.getenv("TELEGRAM_CHAT_ID"), read at import
    pc,         \* position of the run in __main__ / make_message
    results,    \* make_message's dict name -> optional price
    lines,      \* make_message's list of report lines
    i,          \* how many entries of TICKERS the loop has taken
    val,        \* the loop's variable val
    calls,      \* tickers passed to safe_fetch so far, in call order
    fetched,    \* the safe_fetch calls of the current loop iteration
    msg,        \* the text returned by make_message
    stdout,     \* everything printed so far
    posts,      \* the requests.post calls issued so far
    ok          \* the value returned by send_telegram

vars == <<encodes, BOT_TOKEN, CHAT_ID, pc, results, lines, i, val, calls, fetched, msg, stdout, posts, ok>>

----------------------------------------------------------------------------
(* Bounds of the model *)

\* longest intraday frame (number of rows of df['Close']) the feeds return
MaxHist == 2

----------------------------------------------------------------------------
(* Python values *)

None == <<>>

Some(v) == <<v>>

\* truth value of an optional number: None and 0 are falsy
Truthy(x) == x # None /\ x[1] # 0

\* Python's `a or b`
PyOr(a, b) == IF Truthy(a) THEN a ELSE b

\* dict.get(key) with the default None
Get(d, k) == IF k \in DOMAIN d THEN d[k] ELSE None

\* str() of a float that is a whole number of tenths: "4.7", "90.0", "0.0"
FloatStr(v) == ToString(v \div 10) \o "." \o ToString(v % 10)

\* sep.join(parts) for a list of strings, as the list of its pieces
RECURSIVE Join(_, _)
Join(sep, parts) ==
    IF Len(parts) = 0 THEN <<>>
    ELSE IF Len(parts) = 1 THEN <<parts[1]>>
    ELSE <<parts[1], sep>> \o Join(sep, Tail(parts))

\* sep.join(parts) for a list of lines, each line a list of pieces
RECURSIVE JoinLines(_, _)
JoinLines(sep, ls) ==
    IF Len(ls) = 0 THEN <<>>
    ELSE IF Len(ls) = 1 THEN ls[1]
    ELSE ls[1] \o <<sep>> \o JoinLines(sep, Tail(ls))

\* all sequences over S of length at most n
BSeq(S, n) == UNION {[1..k -> S] : k \in 0..n}

----------------------------------------------------------------------------
(* The fixed symbol table *)

TICKERS == <<
    [name |-> "US 10Y (approx)",    ticker |-> "^TNX"],
    [name |-> "Brent (USD/bbl)",    ticker |-> "BZ=F"],
    [name |-> "DXY (Dollar Index)", ticker |-> "DX-Y.NYB"],
    [name |-> "USD/INR",            ticker |-> "USDINR=X"],
    [name |-> "S&P 500",            ticker |-> "^GSPC"] >>

\* the ticker tried when the dollar-index ticker gives nothing
AltTicker == "^DXY"

----------------------------------------------------------------------------
(* What Yahoo Finance may answer for a ticker *)

\* prices (in tenths) a ticker may quote; every set straddles the thresholds
\* the program applies to that symbol and contains the falsy price 0
PricesOf(ticker) ==
    CASE ticker = "^TNX"     -> {0, 41, 42, 46, 47}
      [] ticker = "BZ=F"     -> {0, 900, 950, 960}
      [] ticker = "DX-Y.NYB" -> {0, 1050, 1060}
      [] ticker = "^DXY"     -> {0, 1050, 1060}
      [] ticker = "USDINR=X" -> {0, 835}
      [] OTHER               -> {0, 51234}

OptPricesOf(ticker) == {None} \cup {Some(p) : p \in PricesOf(ticker)}

\* What t.history(period="1d", interval="1m") gives:
\*   "raises" (yf.Ticker() or history() throws), "none" (df is None),
\*   "frame" (a DataFrame whose Close column is Close, possibly empty)
Histories(ticker) ==
    {[history |-> "raises", Close |-> <<>>], [history |-> "none", Close |-> <<>>]}
        \cup {[history |-> "frame", Close |-> c] : c \in BSeq(PricesOf(ticker), MaxHist)}

\* What t.info gives:
\*   "raises" (reading the attribute throws), "noattr" (hasattr is false),
\*   "dict" (a dict; a field that is missing or null is None)
Infos(ticker) ==
    {[info |-> "raises", regularMarketPrice |-> None, previousClose |-> None],
     [info |-> "noattr", regularMarketPrice |-> None, previousClose |-> None]}
        \cup {[info |-> "dict", regularMarketPrice |-> r, previousClose |-> p] :
                r \in OptPricesOf(ticker), p \in OptPricesOf(ticker)}

\* the snapshot of a Ticker object whose info was never looked at
Unread == [info |-> "unread", regularMarketPrice |-> None, previousClose |-> None]

\* A feed is everything one yf.Ticker object answered: its history and its
\* snapshot.
Feed(h, n) == [hist |-> h, snap |-> n]

----------------------------------------------------------------------------
(* safe_fetch *)

\* line 29: df is not None and not df.empty
HasRows(feed) == feed.hist.history = "frame" /\ feed.hist.Close # <<>>

\* line 31: info = t.info if hasattr(t, 'info') else {}; then info.get(key)
InfoGet(feed, key) ==
    IF feed.snap.info = "dict"
    THEN (IF key = "regularMarketPrice" THEN feed.snap.regularMarketPrice
          ELSE feed.snap.previousClose)
    ELSE None

\* does an exception reach the handler of line 34
FetchRaises(feed) ==
    \/ feed.hist.history = "raises"
    \/ ~HasRows(feed) /\ feed.snap.info = "raises"

\* the sources safe_fetch consults, in order
FetchReads(feed) ==
    IF feed.hist.history = "raises" \/ HasRows(feed)
    THEN <<"history">>
    ELSE <<"history", "info">>

\* safe_fetch reading the first row of the frame instead of the last
safe_fetch_first_row(feed) ==
    IF FetchRaises(feed) THEN None
    ELSE IF HasRows(feed) THEN Some(feed.hist.Close[1])
    ELSE LET v == PyOr(InfoGet(feed, "regularMarketPrice"),
                       InfoGet(feed, "previousClose"))
         IN  IF v # None THEN v ELSE None

\* the value safe_fetch returns: line 30, line 33 or line 36
safe_fetch(feed) ==
    IF FetchRaises(feed) THEN None
    ELSE IF HasRows(feed) THEN Some(feed.hist.Close[Len(feed.hist.Close)])
    ELSE LET v == PyOr(InfoGet(feed, "regularMarketPrice"),
                       InfoGet(feed, "previousClose"))
         IN  IF v # None THEN v ELSE None

\* The feeds one safe_fetch(ticker) call can meet.  Yahoo answers a lookup
\* when it is made, so the snapshot is drawn only for a call that gets as
\* far as reading it.
Answers(ticker) ==
    {f \in {Feed(h, Unread) : h \in Histories(ticker)} : FetchReads(f) = <<"history">>}
        \cup {f \in {Feed(h, n) : h \in Histories(ticker), n \in Infos(ticker)} :
                FetchReads(f) = <<"history", "info">>}

\* one safe_fetch call of the run, with what it was given and what it did
Call(ticker, feed) ==
    [ticker |-> ticker, feed |-> feed, ret |-> safe_fetch(feed),
     reads |-> FetchReads(feed), raised |-> FetchRaises(feed)]

----------------------------------------------------------------------------
(* make_message *)

\* The program's texts hold a few characters outside ASCII (pictographs, a
\* dash, arrows); the model writes "-" and "->" for them and leaves the
\* pictographs out of the strings.  That they are there is what makes
\* print(msg) raise on a stdout that cannot encode them (see PrintReport).
\* line 42: the title line; the timestamp is kept as one opaque piece
Header == <<"Morning Market Snapshot - ", "<ts>">>

Blank == <<>>

\* the value formatted as it is, without the 'N/A' replacement
Shown_unreplaced(v) == IF v # None THEN FloatStr(v[1]) ELSE "None"

\* line 53: val if val is not None else 'N/A'
Shown(v) == IF v # None THEN FloatStr(v[1]) ELSE "N/A"

\* line 53: f"{name}: {...}  (ticker: {ticker})", as the list of its pieces
SymbolLine(name, v, ticker) == <<name, ": ", Shown(v), "  (ticker: ", ticker, ")">>

\* lines 47 and 48: the one symbol that gets a second ticker
NeedsAlt(v, ticker) == v = None /\ ticker = "DX-Y.NYB"

\* thresholds of lines 60, 62, 67 and 70, in tenths
US10High == 46

US10Low == 42

DXYStrong == 1050

BrentHigh == 950

\* the yield rule with its upper comparison made inclusive
QuickUS10_inclusive(res) ==
    LET us10 == Get(res, "US 10Y (approx)")
    IN  IF us10 # None
        THEN (IF us10[1] >= US10High THEN <<"US10Y high -> risk-off">>
              ELSE IF us10[1] < US10Low THEN <<"US10Y low -> risk-on possible">>
              ELSE <<>>)
        ELSE <<>>

\* lines 57 to 65
QuickUS10(res) ==
    LET us10 == Get(res, "US 10Y (approx)")
    IN  IF us10 # None
        THEN (IF us10[1] > US10High THEN <<"US10Y high -> risk-off">>
              ELSE IF us10[1] < US10Low THEN <<"US10Y low -> risk-on possible">>
              ELSE <<>>)
        ELSE <<>>

\* the dollar-index rule chained to the yield rule, as an elif would
QuickDXY_chained(res) ==
    LET dxyv == Get(res, "DXY (Dollar Index)")
        us10 == Get(res, "US 10Y (approx)")
    IN  IF us10 # None /\ (us10[1] > US10High \/ us10[1] < US10Low) THEN <<>>
        ELSE IF dxyv # None /\ dxyv[1] > DXYStrong
        THEN <<"DXY strong -> INR pressure possible">>
        ELSE <<>>

\* lines 66 to 68
QuickDXY(res) ==
    LET dxyv == Get(res, "DXY (Dollar Index)")
    IN  IF dxyv # None /\ dxyv[1] > DXYStrong
        THEN <<"DXY strong -> INR pressure possible">>
        ELSE <<>>

\* lines 69 to 71
QuickBrent(res) ==
    LET brentv == Get(res, "Brent (USD/bbl)")
    IN  IF brentv # None /\ brentv[1] > BrentHigh
        THEN <<"Brent high -> inflation pressure">>
        ELSE <<>>

\* the rules applied in the order of TICKERS instead
Quick_table_order(res) == QuickUS10(res) \o QuickBrent(res) \o QuickDXY(res)

\* lines 56 to 71: the list `quick`
Quick(res) == QuickUS10(res) \o QuickDXY(res) \o QuickBrent(res)

NoFlags == "No major global red flags detected"

\* line 74: the commentary line
QuickLine(quick) ==
    <<"Quick read: ">> \o (IF quick # <<>> THEN Join(" | ", quick) ELSE <<NoFlags>>)

----------------------------------------------------------------------------
(* send_telegram *)

\* what os.getenv may give: unset, set to the empty string, set
Credentials == {None, Some(""), Some("123:ABC")}

\* truth value of an optional string: None and "" are falsy
Falsy(c) == c = None \/ c[1] = ""

\* the test giving up only when both secrets are missing
MissingCredentials_both(token, chat) == Falsy(token) /\ Falsy(chat)

\* line 79: not BOT_TOKEN or not CHAT_ID
MissingCredentials(token, chat) == Falsy(token) \/ Falsy(chat)

\* what requests.post may do: throw, or answer with a status code
Responses ==
    {[raises |-> TRUE, status_code |-> 0]}
        \cup {[raises |-> FALSE, status_code |-> c] : c \in {200, 201, 204, 400, 500}}

\* lines 84 to 90: the value send_telegram returns after the POST
Delivered(r) == IF r.raises THEN FALSE ELSE r.status_code = 200

\* an optional string inside an f-string
FStr(c) == IF c = None THEN "None" ELSE c[1]

\* lines 82, 83 and 85: the POST that is issued
Request(token, chat, text) ==
    [url |-> "https://api.telegram.org/bot" \o FStr(token) \o "/sendMessage",
     data |-> [chat_id |-> chat, text |-> text, parse_mode |-> "HTML"],
     timeout |-> 15]

----------------------------------------------------------------------------
(* The run *)

\* printed lines, each as the list of its pieces
FetchErrorLine(ticker) == <<"fetch error", ticker, "<e>">>

MissingLine == <<"Missing Telegram BOT_TOKEN or CHAT_ID">>

StatusLine(r) == <<"telegram status", ToString(r.status_code), "<r.text>">>

SendErrorLine == <<"telegram send error", "<e>">>

SentLine == <<"Message sent">>

FailedLine == <<"Failed to send message">>

\* line 76: "\n".join(lines)
Text(ls) == JoinLines("\n", ls)

\* The texts that come from outside the program (the text of a caught
\* exception, the body of the HTTP response), by what it takes to print
\* them: "ascii" prints on every stdout, "wide" (well-formed text outside
\* ASCII) on a stdout that encodes all well-formed text, "surrogate" (a text
\* holding a lone surrogate) on no stdout, UTF-8 included.  A text outside
\* ASCII that a narrow stdout happens to encode behaves as "ascii" does.
OutsideTexts == {"ascii", "wide", "surrogate"}

\* the report: lines 42 and 74 put pictographs in it, and nothing else
\* outside well-formed text
ReportText == "wide"

\* print() raises UnicodeEncodeError when sys.stdout cannot encode the text
PrintRaises(kind) == ~(kind = "ascii" \/ (kind = "wide" /\ encodes))

\* line 35 as far as it got when printing the exception text raised
FetchErrorStart(ticker) == <<"fetch error", ticker>>

\* lines 11 and 12: the module is imported, the two secrets are read; the
\* process starts with the stdout it was given
Init ==
    /\ encodes \in BOOLEAN
    /\ BOT_TOKEN \in Credentials
    /\ CHAT_ID \in Credentials
    /\ pc = "main"
    /\ results = <<>>
    /\ lines = <<>>
    /\ i = 0
    /\ val = None
    /\ calls = <<>>
    /\ fetched = <<>>
    /\ msg = <<>>
    /\ stdout = <<>>
    /\ posts = <<>>
    /\ ok = FALSE

\* lines 93 and 40 to 43: __main__ enters make_message
StartMessage ==
    /\ pc = "main"
    /\ lines' = <<Header, Blank>>
    /\ results' = <<>>
    /\ pc' = "for"
    /\ UNCHANGED <<encodes, BOT_TOKEN, CHAT_ID, i, val, calls, fetched, msg, stdout, posts, ok>>

\* line 44: the loop takes the next entry of TICKERS, or ends
ForTicker ==
    /\ pc = "for"
    /\ IF i < Len(TICKERS)
       THEN i' = i + 1 /\ pc' = "fetch"
       ELSE i' = i /\ pc' = "quick"
    /\ fetched' = <<>>
    /\ UNCHANGED <<encodes, BOT_TOKEN, CHAT_ID, results, lines, val, calls, msg, stdout, posts, ok>>

\* line 47: where the loop goes after the call of line 45
AfterPrimary(v) == IF NeedsAlt(v, TICKERS[i].ticker) THEN "alt" ELSE "append"

\* line 49: where the loop goes after the call of line 48
AfterAlternate == "append"

\* One safe_fetch call.  Line 35 prints when the call catches an exception;
\* that print stands in the handler, so if it raises in its turn nothing
\* catches it: the call does not return and the run ends in a traceback.
\* Otherwise the run goes on after the call site: line 47 after the call of
\* line 45 (primary), line 49 after the call of line 48.
Fetch(ticker, feed, primary) ==
    LET c == Call(ticker, feed)
        next == IF primary THEN AfterPrimary(c.ret) ELSE AfterAlternate
    IN  /\ calls' = Append(calls, ticker)
        /\ IF c.raised
           THEN \E kind \in OutsideTexts :
                  IF PrintRaises(kind)
                  THEN /\ stdout' = Append(stdout, FetchErrorStart(ticker))
                       /\ pc' = "aborted"
                       /\ UNCHANGED <<val, fetched>>
                  ELSE /\ stdout' = Append(stdout, FetchErrorLine(ticker))
                       /\ val' = c.ret
                       /\ fetched' = Append(fetched, c)
                       /\ pc' = next
           ELSE /\ stdout' = stdout
                /\ val' = c.ret
                /\ fetched' = Append(fetched, c)
                /\ pc' = next

\* line 45: val = safe_fetch(ticker), and the test of line 47
FetchPrimary ==
    /\ pc = "fetch"
    /\ \E f \in Answers(TICKERS[i].ticker) : Fetch(TICKERS[i].ticker, f, TRUE)
    /\ UNCHANGED <<encodes, BOT_TOKEN, CHAT_ID, results, lines, i, msg, posts, ok>>

\* line 48: val = safe_fetch("^DXY")
FetchAlternate ==
    /\ pc = "alt"
    /\ \E g \in Answers(AltTicker) : Fetch(AltTicker, g, FALSE)
    /\ UNCHANGED <<encodes, BOT_TOKEN, CHAT_ID, results, lines, i, msg, posts, ok>>

\* lines 49 to 53: the value is stored and the symbol's line appended
AppendLine ==
    /\ pc = "append"
    /\ results' = (TICKERS[i].name :> val) @@ results
    /\ lines' = Append(lines, SymbolLine(TICKERS[i].name, val, TICKERS[i].ticker))
    /\ pc' = "for"
    /\ UNCHANGED <<encodes, BOT_TOKEN, CHAT_ID, i, val, calls, fetched, msg, stdout, posts, ok>>

\* lines 56 to 76: the commentary is appended and make_message returns
QuickRead ==
    /\ pc = "quick"
    /\ lines' = lines \o <<Blank, QuickLine(Quick(results))>>
    /\ msg' = Text(lines')
    /\ pc' = "print"
    /\ UNCHANGED <<encodes, BOT_TOKEN, CHAT_ID, results, i, val, calls, fetched, stdout, posts, ok>>

\* line 94: print(msg).  The report always holds characters outside ASCII
\* (the pictographs of lines 42 and 74), and nothing catches what this
\* print raises: on a stdout that cannot encode them the run ends here,
\* with nothing of the report printed and send_telegram never called.
PrintReport ==
    /\ pc = "print"
    /\ IF PrintRaises(ReportText)
       THEN stdout' = stdout /\ pc' = "aborted"
       ELSE stdout' = Append(stdout, msg) /\ pc' = "send"
    /\ UNCHANGED <<encodes, BOT_TOKEN, CHAT_ID, results, lines, i, val, calls, fetched, msg, posts, ok>>

\* line 86 as far as it got when printing r.text raised
StatusStart(r) == <<"telegram status", ToString(r.status_code)>>

\* line 89 as far as it got when printing the exception text raised
SendErrorStart == <<"telegram send error">>

\* lines 88 to 90, entered with an exception whose text is of the given
\* kind: the print of line 89 stands in the handler, so if it raises
\* nothing catches it and the run ends in a traceback
SendHandler(out, kind) ==
    IF PrintRaises(kind)
    THEN /\ stdout' = out \o <<SendErrorStart>>
         /\ pc' = "aborted"
         /\ ok' = ok
    ELSE /\ stdout' = out \o <<SendErrorLine>>
         /\ pc' = "log"
         /\ ok' = FALSE

\* lines 95 and 78 to 90: ok = send_telegram(msg).  The print of line 86
\* stands inside the try: when it raises, the handler takes the
\* UnicodeEncodeError, whose own text is ASCII, and False is returned
\* whatever the status was.
SendTelegram ==
    /\ pc = "send"
    /\ IF MissingCredentials(BOT_TOKEN, CHAT_ID)
       THEN /\ stdout' = Append(stdout, MissingLine)
            /\ ok' = FALSE
            /\ posts' = posts
            /\ pc' = "log"
       ELSE \E r \in Responses, kind \in OutsideTexts :
            /\ posts' = Append(posts, Request(BOT_TOKEN, CHAT_ID, msg))
            /\ IF r.raises
               THEN SendHandler(stdout, kind)
               ELSE IF PrintRaises(kind)
               THEN SendHandler(Append(stdout, StatusStart(r)), "ascii")
               ELSE /\ stdout' = Append(stdout, StatusLine(r))
                    /\ ok' = Delivered(r)
                    /\ pc' = "log"
    /\ UNCHANGED <<encodes, BOT_TOKEN, CHAT_ID, results, lines, i, val, calls, fetched, msg>>

\* lines 96 to 99
LogOutcome ==
    /\ pc = "log"
    /\ stdout' = Append(stdout, IF ok THEN SentLine ELSE FailedLine)
    /\ pc' = "done"
    /\ UNCHANGED <<encodes, BOT_TOKEN, CHAT_ID, results, lines, i, val, calls, fetched, msg, posts, ok>>

Next ==
    \/ StartMessage
    \/ ForTicker
    \/ FetchPrimary
    \/ FetchAlternate
    \/ AppendLine
    \/ QuickRead
    \/ PrintReport
    \/ SendTelegram
    \/ LogOutcome

Spec == Init /\ [][Next]_vars

----------------------------------------------------------------------------
(* Vocabulary of the properties *)

\* a symbol's line has just been appended: the feeds met, val and the line
\* are all in view
Appended == pc = "for" /\ i >= 1

\* the symbol the current iteration is about, and its line
Symbol == TICKERS[i]

NewLine == lines[i + 2]

NewValue == NewLine[3]

\* the intraday feed has at least one row
IntradayRows(feed) == feed.hist.history = "frame" /\ Len(feed.hist.Close) > 0

\* the intraday feed answered, with no row
IntradayEmpty(feed) ==
    \/ feed.hist.history = "none"
    \/ feed.hist.history = "frame" /\ Len(feed.hist.Close) = 0

\* the snapshot holds a current price or a previous close
SnapshotField(feed) ==
    /\ feed.snap.info = "dict"
    /\ feed.snap.regularMarketPrice # None \/ feed.snap.previousClose # None

\* neither the intraday feed nor the snapshot gives a price
BothFail(feed) == ~IntradayRows(feed) /\ ~SnapshotField(feed)

\* make_message has returned
Built == pc \in {"print", "send", "log", "done"}

\* the commentary line of the finished report, and its phrases
Commentary == lines[Len(lines)]

Phrases == {Commentary[k] : k \in 2..Len(Commentary)} \ {" | "}

RiskOff == "US10Y high -> risk-off"

RiskOn == "US10Y low -> risk-on possible"

INRPressure == "DXY strong -> INR pressure possible"

Inflation == "Brent high -> inflation pressure"

Yield == results["US 10Y (approx)"]

Dollar == results["DXY (Dollar Index)"]

Oil == results["Brent (USD/bbl)"]

----------------------------------------------------------------------------
(* Properties *)

\* C1: whenever the intraday feed of a symbol's ticker has rows, the value on
\* that symbol's line is the close of the last row, the snapshot is not
\* read, and no other ticker is fetched for the symbol.
C1_IntradayCloseReported ==
    Appended /\ IntradayRows(fetched[1].feed) =>
        LET close == fetched[1].feed.hist.Close
        IN  /\ fetched[1].ticker = Symbol.ticker
            /\ NewLine[1] = Symbol.name
            /\ NewValue = FloatStr(close[Len(close)])
            /\ results[Symbol.name] = Some(close[Len(close)])
            /\ Len(fetched) = 1
            /\ fetched[1].reads = <<"history">>
            /\ fetched[1].feed.snap = Unread

\* C1 witness: the dollar index is reported from a two-row intraday frame
\* whose rows differ, and ^DXY is not fetched.
C1_Witness ==
    /\ Appended
    /\ Symbol.ticker = "DX-Y.NYB"
    /\ fetched[1].feed.hist.Close = <<1060, 1050>>
    /\ NewValue = "105.0"
    /\ calls = <<"^TNX", "BZ=F", "DX-Y.NYB">>

\* C2: when the intraday feed is empty and the snapshot holds a field,
\* safe_fetch returns the current price if there is one, whatever its value,
\* and the previous close otherwise.
C2_SnapshotFieldReturned ==
    \A k \in 1..Len(fetched) :
        LET c == fetched[k]
        IN  IntradayEmpty(c.feed) /\ SnapshotField(c.feed) =>
                c.ret = (IF c.feed.snap.regularMarketPrice # None
                         THEN c.feed.snap.regularMarketPrice
                         ELSE c.feed.snap.previousClose)

\* C3 as stated: for every symbol, if both sources fail for the symbol's own
\* ticker, the symbol's line shows "N/A".
C3_Original ==
    Appended /\ BothFail(fetched[1].feed) => NewValue = "N/A"

\* C3: if both sources fail for every ticker tried for a symbol (its own
\* ticker and, for the dollar index, ^DXY as well), the line shows "N/A";
\* the dollar index is the only symbol for which a second ticker is tried.
C3_AllTickersFail ==
    Appended =>
        /\ (\A k \in 1..Len(fetched) : BothFail(fetched[k].feed)) => NewValue = "N/A"
        /\ Symbol.ticker # "DX-Y.NYB" => Len(fetched) = 1
        /\ Symbol.ticker = "DX-Y.NYB" /\ BothFail(fetched[1].feed) => Len(fetched) = 2

\* C3 witness: the dollar-index line shows N/A after the history lookup of
\* DX-Y.NYB threw and ^DXY had neither rows nor a snapshot field.
C3_Witness ==
    /\ Appended
    /\ Symbol.ticker = "DX-Y.NYB"
    /\ fetched[1].feed.hist.history = "raises"
    /\ Len(fetched) = 2
    /\ fetched[2].feed.hist.history = "frame"
    /\ fetched[2].feed.snap.info = "dict"
    /\ NewValue = "N/A"

\* C4 as stated: with the yield absent or at most 4.6, the dollar index
\* absent or at most 105 and oil absent or at most 95, the commentary is the
\* default phrase alone.
C4_Original ==
    Built /\ (Yield = None \/ Yield[1] <= 46)
          /\ (Dollar = None \/ Dollar[1] <= 1050)
          /\ (Oil = None \/ Oil[1] <= 950)
        => Commentary = <<"Quick read: ", NoFlags>>

\* C4: with the yield absent or between 4.2 and 4.6 inclusive, the dollar
\* index absent or at most 105 and oil absent or at most 95, the commentary
\* is the default phrase alone.
C4_DefaultCommentary ==
    Built /\ (Yield = None \/ (Yield[1] >= 42 /\ Yield[1] <= 46))
          /\ (Dollar = None \/ Dollar[1] <= 1050)
          /\ (Oil = None \/ Oil[1] <= 950)
        => Commentary = <<"Quick read: ", NoFlags>>

\* C4 witness: every metric sits exactly on its threshold and the default
\* phrase is given.
C4_Witness ==
    /\ Built
    /\ Yield = Some(46) /\ Dollar = Some(1050) /\ Oil = Some(950)
    /\ Commentary = <<"Quick read: ", NoFlags>>

\* C5: each advisory phrase depends on its own metric only: risk-off iff
\* the yield is present and above 4.6, INR pressure iff the dollar index is
\* present and above 105, inflation iff oil is present and above 95.
C5_IndependentRules ==
    Built =>
        /\ RiskOff \in Phrases <=> (Yield # None /\ Yield[1] > 46)
        /\ INRPressure \in Phrases <=> (Dollar # None /\ Dollar[1] > 1050)
        /\ Inflation \in Phrases <=> (Oil # None /\ Oil[1] > 950)

\* C5 witness: yield 4.7, dollar index 106, oil 90 give risk-off and INR
\* pressure and no inflation note.
C5_Witness ==
    /\ Built
    /\ Yield = Some(47) /\ Dollar = Some(1060) /\ Oil = Some(900)
    /\ Commentary = <<"Quick read: ", RiskOff, " | ", INRPressure>>

\* a credential is absent or empty
Absent(c) == c = None \/ c = Some("")

\* send_telegram has returned
Sent == pc \in {"log", "done"}

\* what send_telegram printed
SendLine == IF pc = "log" THEN stdout[Len(stdout)] ELSE stdout[Len(stdout) - 1]

\* C6: with either credential absent or empty, no POST is ever issued and
\* send_telegram returns False.
C6_NoPostWithoutCredentials ==
    Absent(BOT_TOKEN) \/ Absent(CHAT_ID) =>
        /\ posts = <<>>
        /\ Sent => ~ok /\ SendLine = <<"Missing Telegram BOT_TOKEN or CHAT_ID">>

\* C6 witness: a run with a token and an empty destination id ends without
\* a POST and with the failure logged.
C6_Witness ==
    /\ pc = "done"
    /\ BOT_TOKEN = Some("123:ABC") /\ CHAT_ID = Some("")
    /\ posts = <<>>
    /\ ~ok
    /\ stdout[Len(stdout)] = <<"Failed to send message">>

\* a response with one of the given status codes was received: line 86
\* printed its status, whether or not it got to the end of the line
Received(codes) ==
    \E k \in 1..Len(stdout) :
        /\ stdout[k][1] = "telegram status"
        /\ stdout[k][2] \in {ToString(c) : c \in codes}

\* C7: with both credentials present, exactly one POST is issued, and
\* send_telegram reports success iff a 200-class response was received;
\* an exception is reported as failure, so the run does not end between the
\* POST and the report of its outcome.  Stated so that it fails on neither
\* reading of "200-class": a response with status 200 is reported as
\* success, and success is reported only after a response with a status
\* from 200 to 299.
C7_OnePostSuccessOn200Class ==
    ~Absent(BOT_TOKEN) /\ ~Absent(CHAT_ID) =>
        /\ Len(posts) <= 1
        /\ pc = "aborted" => posts = <<>>
        /\ Sent => /\ Len(posts) = 1
                   /\ Received({200}) => ok
                   /\ ok => Received(200..299)

\* entries of stdout equal to one of the given lines
Printed(ls) == {k \in 1..Len(stdout) : stdout[k] \in ls}

\* the lines send_telegram can print
SendLines ==
    {<<"Missing Telegram BOT_TOKEN or CHAT_ID">>, <<"telegram send error", "<e>">>}
        \cup {<<"telegram status", ToString(c), "<r.text>">> : c \in 100..599}

\* C8: the run never stops short of its end, and at its end the report of
\* 9 lines has been built, then printed once, then one send attempt made,
\* then exactly one of "Message sent" (iff the send succeeded) and "Failed to
\* send message" logged, whatever the fetches and the delivery did.
C8_RunCompletes ==
    /\ pc # "done" => ENABLED Next
    /\ pc = "done" =>
        LET n == Len(stdout)
        IN  /\ n >= 3
            /\ Len(lines) = 9 /\ msg # <<>>
            /\ stdout[n - 2] = msg
            /\ Printed({msg}) = {n - 2}
            /\ Printed(SendLines) = {n - 1}
            /\ Printed({<<"Message sent">>, <<"Failed to send message">>}) = {n}
            /\ \A k \in 1..(n - 3) : stdout[k][1] = "fetch error"
            /\ stdout[n] = <<"Message sent">> <=> ok
            /\ Len(posts) <= 1

\* s is an initial part of t
IsPrefix(s, t) == Len(s) <= Len(t) /\ \A k \in 1..Len(s) : s[k] = t[k]

PrimaryCalls == <<"^TNX", "BZ=F", "DX-Y.NYB", "USDINR=X", "^GSPC">>

WithAlternate == <<"^TNX", "BZ=F", "DX-Y.NYB", "^DXY", "USDINR=X", "^GSPC">>

\* C9: a run that has left the loop, or has ended, has made 5 or 6
\* safe_fetch calls, in the order of the symbols;
\* the extra call is for ^DXY, comes right after the DX-Y.NYB call, is made
\* iff that call returned None, and its result is then the dollar-index
\* value (N/A iff it is None too); no other symbol gets a second call.
C9_OneAlternateTicker ==
    /\ IsPrefix(calls, PrimaryCalls) \/ IsPrefix(calls, WithAlternate)
    /\ pc \in {"quick", "print", "send", "log", "done", "aborted"} => Len(calls) \in 5..6
    /\ Appended =>
        /\ fetched[1].ticker = Symbol.ticker
        /\ Len(fetched) = 2 <=> (Symbol.ticker = "DX-Y.NYB" /\ fetched[1].ret = None)
        /\ Len(fetched) = 2 => fetched[2].ticker = "^DXY"
        /\ results[Symbol.name] = fetched[Len(fetched)].ret
        /\ NewValue = "N/A" <=> fetched[Len(fetched)].ret = None

\* the commentaries the three rules can give, in the order yield, dollar
\* index, oil, with at most one yield phrase
Commentaries ==
    {y \o d \o o : y \in {<<>>, <<RiskOff>>, <<RiskOn>>},
                   d \in {<<>>, <<INRPressure>>},
                   o \in {<<>>, <<Inflation>>}}

\* C10: the finished report is the title line, an empty line, one line for
\* each of the 5 symbols in the order of TICKERS, each labelled with the
\* symbol's own ticker, an empty line, and one commentary line, whose
\* phrases come in the order yield, dollar index, oil, at most one of them
\* about the yield; the text sent is these 9 lines joined by newlines.
C10_ReportShape ==
    Built =>
        /\ Len(lines) = 9
        /\ lines[1][1] = "Morning Market Snapshot - "
        /\ lines[2] = <<>>
        /\ \A k \in 1..5 :
              /\ Len(lines[k + 2]) = 6
              /\ lines[k + 2][1] = TICKERS[k].name
              /\ lines[k + 2][5] = TICKERS[k].ticker
        /\ lines[8] = <<>>
        /\ lines[9][1] = "Quick read: "
        /\ \E c \in Commentaries :
              SubSeq(lines[9], 2, Len(lines[9])) =
                  (IF c = <<>> THEN <<NoFlags>> ELSE Join(" | ", c))
        /\ Cardinality({k \in 1..Len(msg) : msg[k] = "\n"}) = 8
        /\ Len(msg) = 2 + 5 * 6 + Len(lines[9]) + 8

\* C10 witness: a report with all three kinds of phrase, whose dollar-index
\* line carries the value of ^DXY under the label DX-Y.NYB.
C10_Witness ==
    /\ Built
    /\ calls = WithAlternate
    /\ lines[5][3] = "106.0" /\ lines[5][5] = "DX-Y.NYB"
    /\ lines[9] = <<"Quick read: ", RiskOn, " | ", INRPressure, " | ", Inflation>>

====
